---------------------------- MODULE Spec2Model ----------------------------
(***************************************************************************)
(* Model of annotation-challenge.py: the document-to-grid pipeline          *)
(* (print_unicode_grid_from_gdoc), its format extractors, the two           *)
(* extractors the pipeline never calls (try_direct_csv_export,              *)
(* manual_grid_extraction) and the header classification loop.              *)
(*                                                                          *)
(* A Python str is a sequence of one-character strings; a list is a         *)
(* sequence; Python's 0-based indexes are kept (element i is s[i+1]).       *)
(***************************************************************************)
EXTENDS Integers, Sequences, FiniteSets, TLC

(***************************************************************************)
(* Bounds of the model.                                                     *)
(***************************************************************************)
MaxTables == 2
MaxRows == 1
MaxLines == 3
MaxCols == 3
MaxManualLines == 2

(***************************************************************************)
(* Characters and str methods.                                              *)
(***************************************************************************)
UPPER == <<"A","B","C","D","E","F","G","H","I","J","K","L","M",
           "N","O","P","Q","R","S","T","U","V","W","X","Y","Z">>
LOWER == <<"a","b","c","d","e","f","g","h","i","j","k","l","m",
           "n","o","p","q","r","s","t","u","v","w","x","y","z">>

IsDigit(c) == c \in {"0","1","2","3","4","5","6","7","8","9"}

IsSpace(c) == c \in {" ", "\n", "\t"}

\* str.lower() on one character
LowerChar(c) ==
    IF \E i \in 1..Len(UPPER) : UPPER[i] = c
    THEN LOWER[CHOOSE i \in 1..Len(UPPER) : UPPER[i] = c]
    ELSE c

\* str.lower()
Lower(s) == [i \in 1..Len(s) |-> LowerChar(s[i])]

\* sub in s
Contains(s, sub) ==
    \E i \in 0..(Len(s) - Len(sub)) : SubSeq(s, i + 1, i + Len(sub)) = sub

RECURSIVE LStrip(_)
LStrip(s) == IF s # <<>> /\ IsSpace(Head(s)) THEN LStrip(Tail(s)) ELSE s

RECURSIVE RStrip(_)
RStrip(s) ==
    IF s # <<>> /\ IsSpace(s[Len(s)]) THEN RStrip(SubSeq(s, 1, Len(s) - 1)) ELSE s

\* str.strip()
Strip(s) == RStrip(LStrip(s))

\* str.split('\n'): the list of lines (always at least one element); line j
\* stands between the (j-1)-th and the j-th newline
Split(s) ==
    LET nl == {i \in 1..Len(s) : s[i] = "\n"}
        n == Cardinality(nl)
        Bound(j) == IF j = 0 THEN 0
                    ELSE IF j = n + 1 THEN Len(s) + 1
                    ELSE CHOOSE i \in nl : Cardinality({m \in nl : m < i}) = j - 1
    IN  [j \in 1..(n + 1) |-> SubSeq(s, Bound(j - 1) + 1, Bound(j) - 1)]

\* '\n'.join(lines)
RECURSIVE JoinLines(_)
JoinLines(ls) ==
    IF ls = <<>> THEN <<>>
    ELSE IF Len(ls) = 1 THEN ls[1]
    ELSE ls[1] \o <<"\n">> \o JoinLines(Tail(ls))

(***************************************************************************)
(* The regular expressions of the source.  Each is a concatenation of       *)
(* quantified character classes; an item is [c: class, q: quantifier,       *)
(* g: captured].  Matching is Python's: backtracking, the leftmost start,   *)
(* greedy quantifiers longest first, lazy ones shortest first.              *)
(***************************************************************************)
InClass(ch, cls) ==
    CASE cls = "digit"      -> IsDigit(ch)
      [] cls = "space"      -> IsSpace(ch)
      [] cls = "nonspace"   -> ~IsSpace(ch)
      [] cls = "any"        -> ch # "\n"
      [] cls = "eqcolon"    -> ch \in {"=", ":"}
      [] cls = "commaspace" -> ch = "," \/ IsSpace(ch)
      [] cls = "spacenondigit" -> IsSpace(ch) \/ ~IsDigit(ch)
      [] cls = "lparen"     -> ch = "("
      [] cls = "rparen"     -> ch = ")"
      [] cls = "comma"      -> ch = ","

It(c, q, g) == [c |-> c, q |-> q, g |-> g]

\* r'(\d+)\s+(\S)[\s\D]*(\d+)'
TextRowRe ==
    << It("digit", "+", TRUE), It("space", "+", FALSE), It("nonspace", "1", TRUE),
       It("spacenondigit", "*", FALSE), It("digit", "+", TRUE) >>

\* r'.*?(\d+).*?(\d+).*?[=:].*?(\S)'
ManualRe1 ==
    << It("any", "*?", FALSE), It("digit", "+", TRUE), It("any", "*?", FALSE),
       It("digit", "+", TRUE), It("any", "*?", FALSE), It("eqcolon", "1", FALSE),
       It("any", "*?", FALSE), It("nonspace", "1", TRUE) >>

\* r'\((\d+),\s*(\d+)\)\s*[=:]?\s*(\S)'
ManualRe2 ==
    << It("lparen", "1", FALSE), It("digit", "+", TRUE), It("comma", "1", FALSE),
       It("space", "*", FALSE), It("digit", "+", TRUE), It("rparen", "1", FALSE),
       It("space", "*", FALSE), It("eqcolon", "?", FALSE), It("space", "*", FALSE),
       It("nonspace", "1", TRUE) >>

\* r'(\d+)[,\s]+(\S)[,\s]+(\d+)'
ManualRe3 ==
    << It("digit", "+", TRUE), It("commaspace", "+", FALSE), It("nonspace", "1", TRUE),
       It("commaspace", "+", FALSE), It("digit", "+", TRUE) >>

patterns == << ManualRe1, ManualRe2, ManualRe3 >>

\* how many characters of class cls stand at s[pos], s[pos+1], ...
RECURSIVE RunLen(_, _, _)
RunLen(s, pos, cls) ==
    IF pos <= Len(s) /\ InClass(s[pos], cls) THEN 1 + RunLen(s, pos + 1, cls) ELSE 0

\* the repetition counts a quantifier tries, in the order it tries them
Candidates(q, n) ==
    CASE q = "1"  -> IF n >= 1 THEN <<1>> ELSE <<>>
      [] q = "?"  -> IF n >= 1 THEN <<1, 0>> ELSE <<0>>
      [] q = "+"  -> [i \in 1..n |-> n + 1 - i]
      [] q = "*"  -> [i \in 1..(n + 1) |-> n + 1 - i]
      [] q = "*?" -> [i \in 1..(n + 1) |-> i - 1]

NoMatch == [ok |-> FALSE, end |-> 0, caps |-> <<>>]

\* items i.. of re matched at position pos of s: the first success in
\* backtracking order, with the end position and the captured groups
RECURSIVE MatchAt(_, _, _, _)
RECURSIVE TryCounts(_, _, _, _, _)
MatchAt(re, i, s, pos) ==
    IF i > Len(re) THEN [ok |-> TRUE, end |-> pos, caps |-> <<>>]
    ELSE TryCounts(re, i, s, pos, Candidates(re[i].q, RunLen(s, pos, re[i].c)))

TryCounts(re, i, s, pos, cands) ==
    IF cands = <<>> THEN NoMatch
    ELSE LET n == Head(cands)
             r == MatchAt(re, i + 1, s, pos + n)
         IN  IF r.ok
             THEN [ok |-> TRUE, end |-> r.end,
                   caps |-> IF re[i].g
                            THEN <<SubSeq(s, pos, pos + n - 1)>> \o r.caps
                            ELSE r.caps]
             ELSE TryCounts(re, i, s, pos, Tail(cands))

\* re.search(re, s): the match at the leftmost position that has one
Search(re, s) ==
    LET starts == {p \in 1..(Len(s) + 1) : MatchAt(re, 1, s, p).ok}
    IN  IF starts = {} THEN NoMatch
        ELSE MatchAt(re, 1, s, CHOOSE p \in starts : \A q \in starts : p <= q)

\* re.findall(re, s): the group tuples of the non-overlapping matches
RECURSIVE FindAllFrom(_, _, _)
FindAllFrom(re, s, pos) ==
    IF pos > Len(s) + 1 THEN <<>>
    ELSE LET r == MatchAt(re, 1, s, pos)
         IN  IF r.ok
             THEN <<r.caps>> \o FindAllFrom(re, s, IF r.end > pos THEN r.end ELSE pos + 1)
             ELSE FindAllFrom(re, s, pos + 1)

FindAll(re, s) == FindAllFrom(re, s, 1)

\* re.search(r'\d+', s) is truthy
HasDigit(s) == \E i \in 1..Len(s) : IsDigit(s[i])

(***************************************************************************)
(* Header classification and row validation, the loop bodies that           *)
(* try_html_format and try_docx_format share.                               *)
(***************************************************************************)
sX == <<"x">>
sY == <<"y">>
sCoord == <<"c","o","o","r","d">>
sPosition == <<"p","o","s","i","t","i","o","n">>
sChar == <<"c","h","a","r">>

\* the tests of the if / elif / elif chain on one lowercased header cell
XRule(cell) == Contains(cell, sX) /\ (Contains(cell, sCoord) \/ Contains(cell, sPosition))
CharRule(cell) == Contains(cell, sChar)
YRule(cell) == Contains(cell, sY) /\ (Contains(cell, sCoord) \/ Contains(cell, sPosition))

\* a mutated chain: the y test comes before the character test
ClassifyCellYFirst(cell) ==
    IF XRule(cell) THEN "x"
    ELSE IF YRule(cell) THEN "y"
    ELSE IF CharRule(cell) THEN "char"
    ELSE "none"

\* the branch of the chain that one header cell takes
ClassifyCell(cell) ==
    IF XRule(cell) THEN "x"
    ELSE IF CharRule(cell) THEN "char"
    ELSE IF YRule(cell) THEN "y"
    ELSE "none"

NoColumns == [x_idx |-> -1, char_idx |-> -1, y_idx |-> -1]

\* for i, cell in enumerate(header): ... from cell i on (i is 0-based)
RECURSIVE FindColumns(_, _, _)
FindColumns(header, i, idx) ==
    IF i >= Len(header) THEN idx
    ELSE LET role == ClassifyCell(header[i + 1])
         IN  FindColumns(header, i + 1,
                 CASE role = "x"    -> [idx EXCEPT !.x_idx = i]
                   [] role = "char" -> [idx EXCEPT !.char_idx = i]
                   [] role = "y"    -> [idx EXCEPT !.y_idx = i]
                   [] OTHER         -> idx)

\* if x_idx >= 0 and char_idx >= 0 and y_idx >= 0
AllFound(idx) == idx.x_idx >= 0 /\ idx.char_idx >= 0 /\ idx.y_idx >= 0

Max2(a, b) == IF a >= b THEN a ELSE b

\* a mutated validity test: the coordinate cells need no digit
RowValidNoDigits(x, char, y) == char # <<>>

\* if re.search(r'\d+', x) and re.search(r'\d+', y) and char
RowValid(x, char, y) == HasDigit(x) /\ HasDigit(y) /\ char # <<>>

\* one data row: the triple it contributes, if any
RowTriples(row, idx) ==
    IF Len(row) > Max2(idx.x_idx, Max2(idx.char_idx, idx.y_idx))
    THEN LET x == Strip(row[idx.x_idx + 1])
             char == Strip(row[idx.char_idx + 1])
             y == Strip(row[idx.y_idx + 1])
         IN  IF RowValid(x, char, y) THEN << <<x, char, y>> >> ELSE <<>>
    ELSE <<>>

\* for row in table[1:]: ... from row r on (r is 0-based)
RECURSIVE DataRows(_, _, _)
DataRows(table, r, idx) ==
    IF r >= Len(table) THEN <<>>
    ELSE RowTriples(table[r + 1], idx) \o DataRows(table, r + 1, idx)

\* the body of "for table in ...": the triples one table contributes
\* (cells already stripped, the header lowercased here)
TableTriples(table) ==
    IF Len(table) < 2 THEN <<>>
    ELSE LET header == [i \in 1..Len(table[1]) |-> Lower(table[1][i])]
             idx == FindColumns(header, 0, NoColumns)
         IN  IF AllFound(idx) THEN DataRows(table, 1, idx) ELSE <<>>

\* TableParser.handle_endtag for a cell, and cell.text.strip(): cells reach
\* the loops stripped
StripCells(table) ==
    [r \in 1..Len(table) |-> [c \in 1..Len(table[r]) |-> Strip(table[r][c])]]

(***************************************************************************)
(* try_text_format on the fetched text.                                     *)
(***************************************************************************)
sXCoordinate == <<"x","-","c","o","o","r","d","i","n","a","t","e">>
sCharacter == <<"c","h","a","r","a","c","t","e","r">>
sYCoordinate == <<"y","-","c","o","o","r","d","i","n","a","t","e">>

IsHeaderLine(line) ==
    /\ Contains(Lower(line), sXCoordinate)
    /\ Contains(Lower(line), sCharacter)
    /\ Contains(Lower(line), sYCoordinate)

\* the first i (0-based) with a header line, -1 if none
RECURSIVE TableStart(_, _)
TableStart(lines, i) ==
    IF i >= Len(lines) THEN -1
    ELSE IF IsHeaderLine(lines[i + 1]) THEN i
    ELSE TableStart(lines, i + 1)

\* for i in range(table_start + 1, len(lines)): ... from line i on
RECURSIVE TextRows(_, _)
TextRows(lines, i) ==
    IF i >= Len(lines) THEN <<>>
    ELSE LET line == Strip(lines[i + 1])
             m == Search(TextRowRe, line)
         IN  (IF line # <<>> /\ m.ok
              THEN << <<m.caps[1], m.caps[2], m.caps[3]>> >>
              ELSE <<>>) \o TextRows(lines, i + 1)

TextTriples(text_content) ==
    LET lines == Split(text_content)
        table_start == TableStart(lines, 0)
    IN  IF table_start >= 0 THEN TextRows(lines, table_start + 1) ELSE <<>>

(***************************************************************************)
(* manual_grid_extraction on the fetched text.                              *)
(***************************************************************************)
IsAllDigits(s) == s # <<>> /\ \A i \in 1..Len(s) : IsDigit(s[i])

\* one match of a pattern, put in (x, char, y) order
Orient(match) ==
    IF Len(match[2]) = 1 /\ ~IsAllDigits(match[2])
    THEN <<match[1], match[2], match[3]>>
    ELSE <<match[1], match[3], match[2]>>

\* for match in matches: ...
PatternTriples(pattern, text_content) ==
    LET matches == FindAll(pattern, text_content)
    IN  [j \in 1..Len(matches) |-> Orient(matches[j])]

\* a mutated loop: it stops at the first pattern that matched
RECURSIVE ManualLoopFirstOnly(_, _, _)
ManualLoopFirstOnly(text_content, p, coords) ==
    IF p > Len(patterns) \/ coords # <<>> THEN coords
    ELSE ManualLoopFirstOnly(text_content, p + 1,
                             coords \o PatternTriples(patterns[p], text_content))

\* for pattern in patterns: ... from pattern p on
RECURSIVE ManualLoop(_, _, _)
ManualLoop(text_content, p, coords) ==
    IF p > Len(patterns) THEN coords
    ELSE ManualLoop(text_content, p + 1,
                    coords \o PatternTriples(patterns[p], text_content))

(***************************************************************************)
(* The renderer's arithmetic (pandas' to_numeric and max, list indexing).   *)
(***************************************************************************)
DIGITS == <<"0","1","2","3","4","5","6","7","8","9">>

DigitVal(c) == (CHOOSE d \in 1..Len(DIGITS) : DIGITS[d] = c) - 1

\* .str.replace(r'[^\d]', '', regex=True)
StripNonDigits(s) == SelectSeq(s, IsDigit)

RECURSIVE DecimalValue(_)
DecimalValue(ds) ==
    IF ds = <<>> THEN 0
    ELSE 10 * DecimalValue(SubSeq(ds, 1, Len(ds) - 1)) + DigitVal(ds[Len(ds)])

NaN == [nan |-> TRUE, v |-> 0]

\* pd.to_numeric on a string of digits; the empty string gives NaN
ToNumeric(ds) == IF ds = <<>> THEN NaN ELSE [nan |-> FALSE, v |-> DecimalValue(ds)]

\* one coordinate column cell, coerced as in lines 81-82
Coerce(s) == ToNumeric(StripNonDigits(s))

\* Series.max(): the largest value that is not NaN, NaN if there is none
RECURSIVE ColumnMax(_)
ColumnMax(col) ==
    IF col = <<>> THEN NaN
    ELSE LET rest == ColumnMax(Tail(col))
         IN  IF Head(col).nan THEN rest
             ELSE IF rest.nan \/ Head(col).v >= rest.v THEN Head(col)
             ELSE rest

\* a mutated buffer: rows and columns swapped
BlankGridSwapped(max_x_, max_y_) ==
    [r \in 1..(max_x_ + 1) |-> [c \in 1..(max_y_ + 1) |-> " "]]

\* [[' ' for _ in range(max_x + 1)] for _ in range(max_y + 1)]
BlankGrid(max_x_, max_y_) ==
    [r \in 1..(max_y_ + 1) |-> [c \in 1..(max_x_ + 1) |-> " "]]

\* list[i]: the position (1-based) that Python index i names in a list of
\* n elements, 0 for IndexError; a negative index counts from the end
PyIndex(i, n) ==
    IF 0 <= i /\ i < n THEN i + 1
    ELSE IF i < 0 /\ -n <= i THEN n + i + 1
    ELSE 0

\* a mutated write: a cell already painted is kept
PutGlyphKeepFirst(g, row, col, char) ==
    IF g[row][col] = " " THEN [g EXCEPT ![row][col] = char[1]] ELSE g

\* grid[y][x] = char[0]
PutGlyph(g, row, col, char) == [g EXCEPT ![row][col] = char[1]]

(***************************************************************************)
(* What the pipeline reads: URLs, fetch outcomes, documents.                *)
(***************************************************************************)
SeqUpTo(S, n) == UNION {[1..m -> S] : m \in 0..n}

\* the URL shapes extract_doc_id tells apart
UrlSet == {"path_d", "path_u", "query_id", "other"}

\* extract_doc_id found an identifier (otherwise it raises ValueError)
HasDocId(url) == url \in {"path_d", "path_u", "query_id"}

\* requests.get: it raises, or answers with a status code
Responses ==
    { [raised |-> TRUE, status_code |-> 0],
      [raised |-> FALSE, status_code |-> 200],
      [raised |-> FALSE, status_code |-> 404] }

\* a mutated status test: every answer is taken as a success
StatusOkAny(response) == TRUE

\* response.status_code == 200
StatusOk(response) == response.status_code = 200

HeaderRowSet ==
    { << <<"x","-","c","o","o","r","d","i","n","a","t","e">>,
         <<"C","h","a","r","a","c","t","e","r">>,
         <<"y","-","c","o","o","r","d","i","n","a","t","e">> >>,
      << <<"X"," ","P","o","s","i","t","i","o","n">>,
         <<"Y"," ","P","o","s","i","t","i","o","n">>,
         <<"C","h","a","r",".">> >>,
      << <<"i","n","d","e","x">>,
         <<"c","h","a","r","a","c","t","e","r">>,
         <<"y","-","c","o","o","r","d","i","n","a","t","e">> >>,
      << <<"x","-","c","o","o","r","d","i","n","a","t","e">>,
         <<"C","h","a","r","a","c","t","e","r">>,
         <<"Y"," ","P","o","s","i","t","i","o","n"," ","(","p","x",")">> >> }

RowSet ==
    { << <<"0">>, <<"A">>, <<"0">> >>,
      << <<"-","1">>, <<" ","B","C">>, <<"2">> >>,
      << <<"0">>, <<"E">>, <<"0">> >>,
      << <<"a">>, <<"A">>, <<"0">> >>,
      << <<"0">>, <<>>, <<"0">> >>,
      << <<"0">>, <<"A">> >>,
      << <<"0">>, <<"0">>, <<"A">> >> }

\* a table: a header row and up to MaxRows data rows, or no row at all
TableSet ==
    {<<>>} \cup {<<h>> \o rows : h \in HeaderRowSet, rows \in SeqUpTo(RowSet, MaxRows)}

LineSet ==
    { <<"x","-","c","o","o","r","d","i","n","a","t","e"," ","C","h","a","r","a","c",
        "t","e","r"," ","y","-","c","o","o","r","d","i","n","a","t","e">>,
      <<"0"," ","A"," ","0">>,
      <<"1"," ","B"," ","-","2">>,
      <<"0"," ","C"," ","0">>,
      <<"A"," ","1">>,
      <<>> }

TextSet == {JoinLines(ls) : ls \in SeqUpTo(LineSet, MaxLines)}

HeaderNameSet ==
    { <<"x","-","c","o","o","r","d","i","n","a","t","e">>,
      <<"C","h","a","r","a","c","t","e","r">>,
      <<"y","-","c","o","o","r","d","i","n","a","t","e">>,
      <<"X"," ","P","o","s","i","t","i","o","n">>,
      <<"C","h","a","r",".">>,
      <<"i","n","d","e","x">>,
      <<"Y"," ","P","o","s","i","t","i","o","n"," ","(","p","x",")">>,
      <<"y","-","c","o","o","r","d","i","n","a","t","e"," ","o","f"," ",
        "c","h","a","r","a","c","t","e","r">> }

ManualLineSet ==
    { <<"1","2"," ",":"," ","3">>,
      <<"(","1",",","2",")","=","*">>,
      <<"1",","," ","*",","," ","2">>,
      <<"x","=","1"," ","y","=","2",":"," ","*">>,
      <<"a","b">>,
      <<"1"," ","2">> }

ManualTextSet == {JoinLines(ls) : ls \in SeqUpTo(ManualLineSet, MaxManualLines)}

(***************************************************************************)
(* State.                                                                   *)
(*   pc           where print_unicode_grid_from_gdoc (or the extractor it   *)
(*                called) stands                                            *)
(*   coordinates  the orchestration's list of triples                       *)
(*   cur, t       the running extractor's own list, and how many tables it  *)
(*                has read                                                  *)
(*   calls        the extractor calls made so far, each with its fetch      *)
(*                outcome and the list it returned                          *)
(*   tempFile     temp_doc.docx exists                                      *)
(*   df, max_x, max_y, grid, k   the renderer's locals (k rows painted)     *)
(*   writes       the (x, y) of every grid write made                       *)
(*   out          the lines printed, each with the function that printed it *)
(*   hdr, hidx, hroles, hproc, hdone   a header row, and what the           *)
(*                classification loop made of it                            *)
(*   mresp, mtext, mresult, mdone   a fetch outcome and text, and what      *)
(*                manual_grid_extraction returned for them                  *)
(***************************************************************************)
VARIABLES pc, coordinates, cur, t, calls, tempFile,
          df, max_x, max_y, grid, k, writes, out,
          hdr, hidx, hroles, hproc, hdone,
          mresp, mtext, mresult, mdone

rvars == <<df, max_x, max_y, grid, k, writes>>
hvars == <<hdr, hidx, hroles, hproc, hdone>>
mvars == <<mresp, mtext, mresult, mdone>>
vars == <<pc, coordinates, cur, t, calls, tempFile, rvars, out, hvars, mvars>>

Line(src, kind, text) == [src |-> src, kind |-> kind, text |-> text]

NoDataMsg == Line("pipeline", "nodata", <<>>)
ErrorMsg == Line("pipeline", "error", <<>>)

Call(ext, fetched, response, result) ==
    [ext |-> ext, fetched |-> fetched, raised |-> response.raised,
     status_code |-> response.status_code, result |-> result]

\* an extractor returns result to the orchestration, which goes on at next
Return(ext, fetched, response, result, next) ==
    /\ coordinates' = result
    /\ calls' = Append(calls, Call(ext, fetched, response, result))
    /\ pc' = next

\* except Exception as e: print(f"Error: {e}") in the orchestration
Raise ==
    /\ pc' = "done"
    /\ out' = Append(out, ErrorMsg)

PipelineInit(start) ==
    /\ pc = start
    /\ coordinates = <<>>
    /\ cur = <<>>
    /\ t = 0
    /\ calls = <<>>
    /\ tempFile = FALSE
    /\ df = <<>>
    /\ max_x = 0
    /\ max_y = 0
    /\ grid = <<>>
    /\ k = 0
    /\ writes = <<>>
    /\ out = <<>>

HeaderIdle ==
    /\ hdr = <<>>
    /\ hidx = NoColumns
    /\ hroles = <<>>
    /\ hproc = FALSE
    /\ hdone = FALSE

ManualIdle ==
    /\ mresp = [raised |-> FALSE, status_code |-> 200]
    /\ mtext = <<>>
    /\ mresult = <<>>
    /\ mdone = FALSE

Init == PipelineInit("start") /\ HeaderIdle /\ ManualIdle

(***************************************************************************)
(* print_unicode_grid_from_gdoc: the orchestration.                         *)
(***************************************************************************)
\* a mutated test: the next strategy always runs
NotCoordinatesAlways(coords) == TRUE

\* a mutated test: the list never counts as empty
NotCoordinatesNever(coords) == FALSE

\* "if not coordinates:" before try_text_format and try_docx_format
NotCoordinates(coords) == coords = <<>>

\* "if not coordinates:" before the no-data message
NoCoordinates(coords) == coords = <<>>

\* doc_id = extract_doc_id(url)
Locate ==
    /\ pc = "start"
    /\ \E url \in UrlSet :
          IF HasDocId(url)
          THEN pc' = "html_fetch" /\ UNCHANGED out
          ELSE Raise
    /\ UNCHANGED <<coordinates, cur, t, calls, tempFile, rvars, hvars, mvars>>

\* if not coordinates: coordinates = try_text_format(doc_id)
IfText ==
    /\ pc = "if_text"
    /\ pc' = IF NotCoordinates(coordinates) THEN "text_fetch" ELSE "if_docx"
    /\ UNCHANGED <<coordinates, cur, t, calls, tempFile, rvars, out, hvars, mvars>>

\* if not coordinates: coordinates = try_docx_format(doc_id)
IfDocx ==
    /\ pc = "if_docx"
    /\ pc' = IF NotCoordinates(coordinates) THEN "docx_fetch" ELSE "if_none"
    /\ UNCHANGED <<coordinates, cur, t, calls, tempFile, rvars, out, hvars, mvars>>

\* if not coordinates: print("No valid coordinate data ..."); return
IfNone ==
    /\ pc = "if_none"
    /\ IF NoCoordinates(coordinates)
       THEN pc' = "done" /\ out' = Append(out, NoDataMsg)
       ELSE pc' = "build" /\ UNCHANGED out
    /\ UNCHANGED <<coordinates, cur, t, calls, tempFile, rvars, hvars, mvars>>

(***************************************************************************)
(* try_html_format.                                                         *)
(***************************************************************************)
\* requests.get and the status test
HtmlFetch ==
    /\ pc = "html_fetch"
    /\ \E response \in Responses :
          IF response.raised
          THEN /\ out' = Append(out, Line("html", "diag", <<>>))
               /\ Return("html", TRUE, response, <<>>, "if_text")
               /\ UNCHANGED <<cur, t>>
          ELSE IF StatusOk(response)
          THEN /\ pc' = "html_tables"
               /\ cur' = <<>>
               /\ t' = 0
               /\ calls' = Append(calls, Call("html", TRUE, response, <<>>))
               /\ UNCHANGED <<coordinates, out>>
          ELSE /\ Return("html", TRUE, response, <<>>, "if_text")
               /\ UNCHANGED <<cur, t, out>>
    /\ UNCHANGED <<tempFile, rvars, hvars, mvars>>

\* the result of the call in progress is filled in when it returns
Finish(result, next) ==
    /\ coordinates' = result
    /\ calls' = [calls EXCEPT ![Len(calls)].result = result]
    /\ pc' = next

\* one pass of "for table in parser.tables:"; it returns at the first table
\* that gave a triple
HtmlTable ==
    /\ pc = "html_tables"
    /\ t < MaxTables
    /\ \E table \in TableSet :
          LET found == cur \o TableTriples(StripCells(table))
          IN  IF found # <<>>
              THEN Finish(found, "if_text") /\ UNCHANGED <<cur, t>>
              ELSE /\ cur' = found
                   /\ t' = t + 1
                   /\ UNCHANGED <<pc, coordinates, calls>>
    /\ UNCHANGED <<tempFile, rvars, out, hvars, mvars>>

\* no table is left: return coordinates
HtmlEnd ==
    /\ pc = "html_tables"
    /\ Finish(cur, "if_text")
    /\ UNCHANGED <<cur, t, tempFile, rvars, out, hvars, mvars>>

(***************************************************************************)
(* try_text_format.                                                         *)
(***************************************************************************)
TryText ==
    /\ pc = "text_fetch"
    /\ \E response \in Responses, text_content \in TextSet :
          IF response.raised
          THEN /\ out' = Append(out, Line("text", "diag", <<>>))
               /\ Return("text", TRUE, response, <<>>, "if_docx")
          ELSE /\ Return("text", TRUE, response,
                         IF StatusOk(response) THEN TextTriples(text_content) ELSE <<>>,
                         "if_docx")
               /\ UNCHANGED out
    /\ UNCHANGED <<cur, t, tempFile, rvars, hvars, mvars>>

(***************************************************************************)
(* try_docx_format.                                                         *)
(***************************************************************************)
\* import docx, requests.get, the status test, writing temp_doc.docx and
\* docx.Document(...), which raises on a body that is no document
DocxFetch ==
    /\ pc = "docx_fetch"
    /\ \E available \in BOOLEAN, response \in Responses, readable \in BOOLEAN :
          IF ~available
          THEN /\ out' = Append(out, Line("docx", "diag", <<>>))
               /\ Return("docx", FALSE, [raised |-> FALSE, status_code |-> 0],
                         <<>>, "if_none")
               /\ UNCHANGED <<cur, t, tempFile>>
          ELSE IF response.raised
          THEN /\ out' = Append(out, Line("docx", "diag", <<>>))
               /\ Return("docx", TRUE, response, <<>>, "if_none")
               /\ UNCHANGED <<cur, t, tempFile>>
          ELSE IF ~StatusOk(response)
          THEN /\ Return("docx", TRUE, response, <<>>, "if_none")
               /\ UNCHANGED <<cur, t, tempFile, out>>
          ELSE IF ~readable
          THEN /\ tempFile' = TRUE
               /\ out' = Append(out, Line("docx", "diag", <<>>))
               /\ Return("docx", TRUE, response, <<>>, "if_none")
               /\ UNCHANGED <<cur, t>>
          ELSE /\ tempFile' = TRUE
               /\ pc' = "docx_tables"
               /\ cur' = <<>>
               /\ t' = 0
               /\ calls' = Append(calls, Call("docx", TRUE, response, <<>>))
               /\ UNCHANGED <<coordinates, out>>
    /\ UNCHANGED <<rvars, hvars, mvars>>

\* one pass of "for table in doc.tables:"; the triples of all tables add up
DocxTable ==
    /\ pc = "docx_tables"
    /\ t < MaxTables
    /\ \E table \in TableSet :
          /\ cur' = cur \o TableTriples(StripCells(table))
          /\ t' = t + 1
    /\ UNCHANGED <<pc, coordinates, calls, tempFile, rvars, out, hvars, mvars>>

\* no table is left: os.remove('temp_doc.docx') and return coordinates
DocxEnd ==
    /\ pc = "docx_tables"
    /\ tempFile' = FALSE
    /\ Finish(cur, "if_none")
    /\ UNCHANGED <<cur, t, rvars, out, hvars, mvars>>

(***************************************************************************)
(* The renderer (lines 78-101).                                             *)
(***************************************************************************)
\* the DataFrame with both coordinate columns coerced
Frame(coords) ==
    [i \in 1..Len(coords) |->
        [x |-> Coerce(coords[i][1]), char |-> coords[i][2], y |-> Coerce(coords[i][3])]]

\* lines 78-89: int(NaN) raises when a column has no number at all
BuildGrid ==
    /\ pc = "build"
    /\ LET frame == Frame(coordinates)
           mx == ColumnMax([i \in 1..Len(frame) |-> frame[i].x])
           my == ColumnMax([i \in 1..Len(frame) |-> frame[i].y])
       IN  IF mx.nan \/ my.nan
           THEN Raise /\ UNCHANGED rvars
           ELSE /\ df' = frame
                /\ max_x' = mx.v
                /\ max_y' = my.v
                /\ grid' = BlankGrid(mx.v, my.v)
                /\ k' = 0
                /\ pc' = "paint"
                /\ UNCHANGED <<writes, out>>
    /\ UNCHANGED <<coordinates, cur, t, calls, tempFile, hvars, mvars>>

\* one pass of "for _, row in df.iterrows():"
Paint ==
    /\ pc = "paint"
    /\ k < Len(df)
    /\ LET row == df[k + 1]
           ri == IF row.y.nan THEN 0 ELSE PyIndex(row.y.v, Len(grid))
           ci == IF row.x.nan \/ ri = 0 THEN 0 ELSE PyIndex(row.x.v, Len(grid[ri]))
       IN  IF row.x.nan \/ row.y.nan
           THEN Raise /\ UNCHANGED rvars
           ELSE IF Len(row.char) > 0
           THEN IF ri = 0 \/ ci = 0
                THEN Raise /\ UNCHANGED rvars
                ELSE /\ grid' = PutGlyph(grid, ri, ci, row.char)
                     /\ writes' = Append(writes, [x |-> row.x.v, y |-> row.y.v])
                     /\ k' = k + 1
                     /\ UNCHANGED <<pc, df, max_x, max_y, out>>
           ELSE /\ k' = k + 1
                /\ UNCHANGED <<pc, df, max_x, max_y, grid, writes, out>>
    /\ UNCHANGED <<coordinates, cur, t, calls, tempFile, hvars, mvars>>

\* for row in grid: print(''.join(row))
PrintGrid ==
    /\ pc = "paint"
    /\ k = Len(df)
    /\ out' = out \o [r \in 1..Len(grid) |-> Line("pipeline", "grid", grid[r])]
    /\ pc' = "done"
    /\ UNCHANGED <<coordinates, cur, t, calls, tempFile, rvars, hvars, mvars>>

Next ==
    \/ Locate
    \/ HtmlFetch
    \/ HtmlTable
    \/ HtmlEnd
    \/ IfText
    \/ TryText
    \/ IfDocx
    \/ DocxFetch
    \/ DocxTable
    \/ DocxEnd
    \/ IfNone
    \/ BuildGrid
    \/ Paint
    \/ PrintGrid

Spec == Init /\ [][Next]_vars

(***************************************************************************)
(* The header classification loop on its own: a header row is drawn, the    *)
(* loop runs on it as in try_html_format / try_docx_format.                 *)
(***************************************************************************)
InitHeader ==
    /\ PipelineInit("off")
    /\ ManualIdle
    /\ hdr \in (SeqUpTo(HeaderNameSet, MaxCols) \ {<<>>})
    /\ hidx = NoColumns
    /\ hroles = <<>>
    /\ hproc = FALSE
    /\ hdone = FALSE

LocateColumns ==
    /\ ~hdone
    /\ hdr # <<>>
    /\ LET header == [i \in 1..Len(hdr) |-> Strip(Lower(hdr[i]))]
           idx == FindColumns(header, 0, NoColumns)
       IN  /\ hidx' = idx
           /\ hroles' = [i \in 1..Len(header) |-> ClassifyCell(header[i])]
           /\ hproc' = AllFound(idx)
    /\ hdone' = TRUE
    /\ UNCHANGED <<pc, coordinates, cur, t, calls, tempFile, rvars, out, hdr, mvars>>

NextHeader == LocateColumns

SpecHeader == InitHeader /\ [][NextHeader]_vars

(***************************************************************************)
(* manual_grid_extraction on its own: the pipeline never calls it.          *)
(***************************************************************************)
InitManual ==
    /\ PipelineInit("off")
    /\ HeaderIdle
    /\ mresp \in Responses
    /\ mtext \in ManualTextSet
    /\ mresult = <<>>
    /\ mdone = FALSE

ManualExtract ==
    /\ pc = "off"
    /\ ~mdone
    /\ mresult' = IF ~mresp.raised /\ StatusOk(mresp)
                  THEN ManualLoop(mtext, 1, <<>>)
                  ELSE <<>>
    /\ out' = IF mresp.raised THEN Append(out, Line("manual", "diag", <<>>)) ELSE out
    /\ mdone' = TRUE
    /\ UNCHANGED <<pc, coordinates, cur, t, calls, tempFile, rvars, hvars,
                   mresp, mtext>>

NextManual == ManualExtract

SpecManual == InitManual /\ [][NextManual]_vars

(***************************************************************************)
(* Properties.                                                              *)
(***************************************************************************)
ExtractorOrder == <<"html", "text", "docx">>

\* the extractor calls that have returned
Returned ==
    IF pc \in {"html_tables", "docx_tables"} THEN SubSeq(calls, 1, Len(calls) - 1)
    ELSE calls

AllReturnedEmpty == \A i \in 1..Len(Returned) : Returned[i].result = <<>>

PipelineLines == SelectSeq(out, LAMBDA l : l.src = "pipeline")

GridPrinted == \E i \in 1..Len(out) : out[i].kind = "grid"

\* the coordinate values of triple i, read off the triple list itself
XOf(coords, i) == DecimalValue(StripNonDigits(coords[i][1]))
YOf(coords, i) == DecimalValue(StripNonDigits(coords[i][3]))

SetMax(S) == CHOOSE m \in S : \A n \in S : n <= m

Rendering == pc = "paint" \/ (pc = "done" /\ GridPrinted)

Painted == (pc = "paint" /\ k = Len(df)) \/ (pc = "done" /\ GridPrinted)

\* C1: the extractors are called in the order structured-markup, plain-text,
\* packaged-document; an extractor is called only when every earlier one
\* returned the empty list, so the first non-empty list ends the search, and
\* the triples rendered are exactly the list of the last extractor called.
C1_FirstNonEmptyWins ==
    /\ Len(calls) <= Len(ExtractorOrder)
    /\ \A i \in 1..Len(calls) : calls[i].ext = ExtractorOrder[i]
    /\ \A i \in 1..(Len(calls) - 1) : calls[i].result = <<>>
    /\ (pc \in {"build", "paint"} \/ GridPrinted) =>
          /\ calls # <<>>
          /\ calls[Len(calls)].result # <<>>
          /\ coordinates = calls[Len(calls)].result
    /\ Rendering =>
          /\ Len(df) = Len(calls[Len(calls)].result)
          /\ \A i \in 1..Len(df) :
                /\ df[i].char = calls[Len(calls)].result[i][2]
                /\ df[i].x.v = XOf(calls[Len(calls)].result, i)
                /\ df[i].y.v = YOf(calls[Len(calls)].result, i)

\* C1 witness: the first extractor returned triples, no other extractor was
\* called, and the grid was printed.
C1_Witness ==
    /\ pc = "done"
    /\ GridPrinted
    /\ Len(calls) = 1
    /\ calls[1].ext = "html"
    /\ calls[1].result # <<>>

\* C2: whenever a grid exists (before, during and after painting) it has
\* max_y+1 rows of max_x+1 cells each, max_x and max_y being the largest
\* digit-stripped x and y of the triple list.
C2_GridDimensions ==
    Rendering =>
        LET mx == SetMax({XOf(coordinates, i) : i \in 1..Len(coordinates)})
            my == SetMax({YOf(coordinates, i) : i \in 1..Len(coordinates)})
        IN  /\ Len(grid) = my + 1
            /\ \A r \in 1..Len(grid) : Len(grid[r]) = mx + 1

\* C2 witness: all triples painted into a grid of three rows and two columns.
C2_Witness ==
    /\ pc = "paint"
    /\ k = Len(df)
    /\ k >= 2
    /\ Len(grid) = 3
    /\ Len(grid[1]) = 2

\* the triples at cell (x, y) that carry a character
Hits(x, y) ==
    {i \in 1..Len(coordinates) :
        /\ XOf(coordinates, i) = x
        /\ YOf(coordinates, i) = y
        /\ coordinates[i][2] # <<>>}

\* C3: once every triple is painted, each cell holds the first glyph of the
\* last triple of the list at that cell, and a blank where no triple is.
C3_LastWriteWins ==
    Painted =>
        \A r \in 1..Len(grid) : \A c \in 1..Len(grid[r]) :
            grid[r][c] = IF Hits(c - 1, r - 1) = {} THEN " "
                         ELSE coordinates[SetMax(Hits(c - 1, r - 1))][2][1]

\* C3 witness: two triples with different glyphs share a cell and all
\* triples are painted.
C3_Witness ==
    /\ pc = "paint"
    /\ k = Len(df)
    /\ \E i, j \in 1..Len(coordinates) :
          /\ i < j
          /\ XOf(coordinates, i) = XOf(coordinates, j)
          /\ YOf(coordinates, i) = YOf(coordinates, j)
          /\ coordinates[i][2][1] # coordinates[j][2][1]

\* C4: when every extractor the pipeline ran returned the empty list the
\* renderer is not entered, no grid exists and no grid line is printed; the
\* pipeline's own output is the single no-data message, and no fault is
\* reported.
C4_NoDataMessage ==
    (Returned # <<>> /\ AllReturnedEmpty) =>
        /\ pc \notin {"build", "paint"}
        /\ grid = <<>>
        /\ ~GridPrinted
        /\ pc = "done" => PipelineLines = <<NoDataMsg>>
        /\ pc # "done" => PipelineLines = <<>>

\* C4 witness: all three extractors returned empty and the message is out.
C4_Witness ==
    /\ pc = "done"
    /\ Len(calls) = 3
    /\ AllReturnedEmpty
    /\ PipelineLines = <<NoDataMsg>>

\* C5: the no-data message is printed only after the four format extractors
\* and the manual pattern extractor have all been called.
C5_AllFiveAttempted ==
    (\E i \in 1..Len(out) : out[i] = NoDataMsg) =>
        {"html", "text", "docx", "csv", "manual"} \subseteq
            {calls[i].ext : i \in 1..Len(calls)}

\* C6: once try_docx_format has returned, temp_doc.docx does not exist.
C6_TempFileDeleted ==
    (\E i \in 1..Len(Returned) : Returned[i].ext = "docx") => ~tempFile

FailedFetch(call) == call.fetched /\ (call.raised \/ call.status_code # 200)

\* C7: an extractor whose fetch raised or answered with a status other than
\* 200 returns the empty list, the orchestration reports no fault, and the
\* next strategy in order is the next thing the pipeline does.
C7_FailedFetchIsEmpty ==
    \A i \in 1..Len(calls) :
        FailedFetch(calls[i]) =>
            /\ calls[i].result = <<>>
            /\ pc \notin {"html_tables", "docx_tables"} \/ i < Len(calls)
            /\ \A j \in 1..Len(out) : out[j] # ErrorMsg
            /\ calls[i].ext = "html" =>
                  (Len(calls) > i \/ pc \in {"if_text", "text_fetch"})
            /\ calls[i].ext = "text" =>
                  (Len(calls) > i \/ pc \in {"if_docx", "docx_fetch"})
            /\ calls[i].ext = "docx" => pc \in {"if_none", "done"}

\* C7 witness: the first fetch raised, the second answered 404, and the
\* third extractor still ran and gave the triples that were rendered.
C7_Witness ==
    /\ pc = "done"
    /\ Len(calls) = 3
    /\ calls[1].raised
    /\ ~calls[2].raised /\ calls[2].status_code = 404
    /\ calls[3].result # <<>>
    /\ GridPrinted

\* the header cell i as the classification loop sees it
HeaderCell(i) == Strip(Lower(hdr[i]))

RoleCells(role) == {i \in 1..Len(hroles) : hroles[i] = role}

\* C8 as stated: each rule decides its role on its own.
C8_IndependentRules ==
    hdone =>
        /\ \A i \in 1..Len(hdr) :
              /\ hroles[i] = "x" <=> XRule(HeaderCell(i))
              /\ hroles[i] = "y" <=> YRule(HeaderCell(i))
              /\ hroles[i] = "char" <=> CharRule(HeaderCell(i))
        /\ hproc => (RoleCells("x") # {} /\ RoleCells("y") # {} /\ RoleCells("char") # {})

\* C8 amended: a header cell takes at most one role, decided in the order
\* x, character, y: it is x iff the x rule holds, character iff the char rule
\* holds and the x rule does not, y iff the y rule holds and neither of the
\* others does; the column of a role is the last cell that took it; a table
\* is processed iff all three roles were taken.
C8_PriorityRules ==
    hdone =>
        /\ \A i \in 1..Len(hdr) :
              /\ hroles[i] = "x" <=> XRule(HeaderCell(i))
              /\ hroles[i] = "char" <=> (CharRule(HeaderCell(i)) /\ ~XRule(HeaderCell(i)))
              /\ hroles[i] = "y" <=>
                    (YRule(HeaderCell(i)) /\ ~XRule(HeaderCell(i)) /\ ~CharRule(HeaderCell(i)))
        /\ hidx.x_idx = IF RoleCells("x") = {} THEN -1 ELSE SetMax(RoleCells("x")) - 1
        /\ hidx.char_idx = IF RoleCells("char") = {} THEN -1 ELSE SetMax(RoleCells("char")) - 1
        /\ hidx.y_idx = IF RoleCells("y") = {} THEN -1 ELSE SetMax(RoleCells("y")) - 1
        /\ hproc <=> (RoleCells("x") # {} /\ RoleCells("y") # {} /\ RoleCells("char") # {})

\* C8 witness: a processed header in which one cell satisfies the y rule
\* and the character rule and took the character role.
C8_Witness ==
    /\ hdone
    /\ hproc
    /\ \E i \in 1..Len(hdr) :
          /\ YRule(HeaderCell(i))
          /\ CharRule(HeaderCell(i))
          /\ hroles[i] = "char"

FetchedOk == ~mresp.raised /\ mresp.status_code = 200

Matching == {p \in 1..Len(patterns) : FindAll(patterns[p], mtext) # <<>>}

\* C9 as stated: the result holds the triples of the first pattern that
\* matched, and of no other.
C9_FirstPatternOnly ==
    (mdone /\ FetchedOk) =>
        mresult = IF Matching = {} THEN <<>>
                  ELSE PatternTriples(patterns[CHOOSE p \in Matching :
                                                   \A q \in Matching : p <= q], mtext)

\* C9 amended: the three patterns are tried in sequence and the result is
\* the triples of every pattern that matched, in pattern order; a failed
\* fetch gives the empty list.
C9_AllPatternsInOrder ==
    mdone =>
        mresult = IF FetchedOk
                  THEN PatternTriples(ManualRe1, mtext)
                       \o PatternTriples(ManualRe2, mtext)
                       \o PatternTriples(ManualRe3, mtext)
                  ELSE <<>>

\* C9 witness: two patterns matched and the result holds the triples of both.
C9_Witness ==
    /\ mdone
    /\ FetchedOk
    /\ Cardinality(Matching) >= 2
    /\ Len(mresult) > Len(PatternTriples(patterns[CHOOSE p \in Matching :
                                                      \A q \in Matching : p <= q], mtext))

HasNumber(s) == StripNonDigits(s) # <<>>

\* C10: every triple an extractor of the pipeline produced has a number in
\* both coordinate fields; in the renderer every coerced coordinate is an
\* integer between 0 and the computed maximum, every grid write lands inside
\* the buffer, and the renderer reports no fault.
C10_WritesInBounds ==
    /\ \A i \in 1..Len(coordinates) :
          HasNumber(coordinates[i][1]) /\ HasNumber(coordinates[i][3])
    /\ \A i \in 1..Len(cur) : HasNumber(cur[i][1]) /\ HasNumber(cur[i][3])
    /\ Rendering =>
          /\ \A i \in 1..Len(df) :
                /\ ~df[i].x.nan /\ ~df[i].y.nan
                /\ 0 <= df[i].x.v /\ df[i].x.v <= max_x
                /\ 0 <= df[i].y.v /\ df[i].y.v <= max_y
          /\ \A i \in 1..Len(writes) :
                /\ 0 <= writes[i].y /\ writes[i].y < Len(grid)
                /\ 0 <= writes[i].x /\ writes[i].x < Len(grid[writes[i].y + 1])
    /\ calls # <<>> => \A j \in 1..Len(out) : out[j] # ErrorMsg

\* C10 witness: a triple whose coordinate field carries a minus sign was
\* painted along with another triple.
C10_Witness ==
    /\ pc = "paint"
    /\ k = Len(df)
    /\ Len(writes) >= 2
    /\ \E i \in 1..Len(coordinates) :
          \E j \in 1..Len(coordinates[i][1]) : coordinates[i][1][j] = "-"

=============================================================================
